---- MODULE Spec2Model ----
(***************************************************************************)
(* The tree-walking evaluator of monkey-lang (evaluator/evaluator.go).     *)
(*                                                                         *)
(* Eval and its helpers are recursive operators that thread an explicit    *)
(* machine state `st`: the heap of environments, the allocation counter    *)
(* that gives every heap object its identity, the host-level fault (a Go   *)
(* panic) if one happened, the iteration orders the Go runtime will pick   *)
(* for `range` over a map, and a log of what the evaluator did.            *)
(* evalProgram's loop is the state machine: one step per statement.        *)
(***************************************************************************)
EXTENDS Integers, Sequences, FiniteSets, TLC

VARIABLES envs, nobj, last, pc, fault, result, n, stmt, trace

vars == <<envs, nobj, last, pc, fault, result, n, stmt, trace>>

(***************************************************************************)
(* Bounds of the model.                                                    *)
(***************************************************************************)
MaxStmts == 4      \* statements of a program
MaxNest  == 2      \* depth of nested if-blocks around a return
MaxLen   == 2      \* length of the indexed array literals
MaxPairs == 2      \* pairs of a hash literal
MaxArgs  == 3      \* arguments of a call
OracleLen == 2     \* map iterations whose orders are drawn independently

(***************************************************************************)
(* Runtime values (package object).  nil is Go's nil interface value.      *)
(* Objects allocated with & carry the identity `id`; Integer objects are   *)
(* allocated too, but the evaluator never compares two of them by          *)
(* identity, so they carry none.  Integer values are int64; the programs   *)
(* below compute with small literals only, far from the wrap-around.       *)
(* The discriminating fields, type here and kind in the syntax trees, are  *)
(* the first fields of every record.                                       *)
(***************************************************************************)
nil      == [type |-> "nil"]
NULL     == [type |-> "NULL"]
ObjTRUE  == [type |-> "BOOLEAN", value |-> TRUE]
ObjFALSE == [type |-> "BOOLEAN", value |-> FALSE]

integer(number) == [type |-> "INTEGER", value |-> number]

boolean(b) == IF b THEN ObjTRUE ELSE ObjFALSE

newError(message) == [type |-> "ERROR", message |-> message]

isError(obj) == obj # nil /\ obj.type = "ERROR"

isTruthy(v) == v # ObjFALSE /\ v # NULL

unwrapReturnValue(obj) == IF obj.type = "RETURN_VALUE" THEN obj.value ELSE obj

\* object.Hashable: Integer, Boolean and String have a HashKey method
Hashable(obj) == obj.type \in {"INTEGER", "BOOLEAN", "STRING"}

\* (kind tag, discriminant); a string's content stands for its content hash
HashKey(obj) ==
  [type  |-> obj.type,
   value |-> IF obj.type = "BOOLEAN" THEN (IF obj.value THEN 1 ELSE 0)
             ELSE obj.value]

(***************************************************************************)
(* Syntax trees (package ast), as the parser builds them.                  *)
(***************************************************************************)
NoNode == [kind |-> "nil"]

IntLit(v)   == [kind |-> "IntegerLiteral", Value |-> v]
BoolLit(v)  == [kind |-> "Boolean", Value |-> v]
StrLit(v)   == [kind |-> "StringLiteral", Value |-> v]
Ident(v) == [kind |-> "Identifier", Value |-> v]

Let(name, value) == [kind |-> "LetStatement", Name |-> Ident(name), Value |-> value]
Ret(value)       == [kind |-> "ReturnStatement", ReturnValue |-> value]
ExprS(e)         == [kind |-> "ExpressionStatement", Expression |-> e]
Block(stmts)     == [kind |-> "BlockStatement", Statements |-> stmts]

If(c, cons, alt) == [kind |-> "IfExpression", Condition |-> c,
                     Consequence |-> cons, Alternative |-> alt]
Prefix(op, r)    == [kind |-> "PrefixExpression", Operator |-> op, Right |-> r]
Infix(l, op, r)  == [kind |-> "InfixExpression", Left |-> l, Operator |-> op,
                     Right |-> r]
Fn(params, body) == [kind |-> "FunctionLiteral",
                     Parameters |-> [i \in DOMAIN params |-> Ident(params[i])],
                     Body |-> body]
Call(f, args)    == [kind |-> "CallExpression", Function |-> f, Arguments |-> args]
Arr(elems)       == [kind |-> "ArrayLiteral", Elements |-> elems]
Index(l, i)      == [kind |-> "IndexExpression", Left |-> l, Index |-> i]
\* the pairs in source order, the order in which the parser inserts them
HashLit(pairs)   == [kind |-> "HashLiteral", Pairs |-> pairs]

(***************************************************************************)
(* Environments (object.Environment) live in the heap `envs`, a sequence;  *)
(* a reference to an environment is its index, 0 is the nil reference.     *)
(***************************************************************************)
RootEnv == 1

NewEnvironment == [store |-> <<>>, outer |-> 0]

NewEnclosedEnvironment(outer) == [store |-> <<>>, outer |-> outer]

RECURSIVE Get(_, _, _)
Get(heap, env, name) ==
  IF name \in DOMAIN heap[env].store
    THEN [val |-> heap[env].store[name], ok |-> TRUE]
    ELSE IF heap[env].outer # 0
           THEN Get(heap, heap[env].outer, name)
           ELSE [val |-> nil, ok |-> FALSE]

Set(heap, env, name, val) ==
  [heap EXCEPT ![env].store = (name :> val) @@ @]

(***************************************************************************)
(* The built-in registry: a fixed table from names to host functions.  Its *)
(* entries are not part of the evaluator; one entry stands for them, which *)
(* checks the number of its arguments and yields a normal value.           *)
(***************************************************************************)
BuiltinNames == {"len"}

builtins == [name \in BuiltinNames |-> [type |-> "BUILTIN", name |-> name]]

\* a built-in returns a normal Value (or an ErrorSignal on a violation)
BuiltinFn(fn, args) == IF Len(args) # 1
                         THEN newError("wrong number of arguments")
                         ELSE NULL

(***************************************************************************)
(* Machine state threaded through the evaluator, and its results.          *)
(***************************************************************************)
Faulted(r) == r.st.fault # "none"

Panic(st, reason) == [val |-> nil, st |-> [st EXCEPT !.fault = reason]]

Done(val, st) == [val |-> val, st |-> st]

Log(st, event) == [st EXCEPT !.trace = Append(@, event)]

\* Go's integer division truncates toward zero
Quot(a, b) ==
  LET abs(x) == IF x < 0 THEN -x ELSE x
      q == abs(a) \div abs(b)
  IN  IF (a < 0) # (b < 0) THEN -q ELSE q

(***************************************************************************)
(* Pure helpers of the evaluator.                                          *)
(***************************************************************************)
evalBangOperator(value) ==
  CASE value = ObjTRUE  -> ObjFALSE
    [] value = ObjFALSE -> ObjTRUE
    [] value = NULL     -> ObjTRUE
    [] OTHER            -> ObjFALSE

evalMinusOperator(right, st) ==
  IF right = nil THEN Panic(st, "nil dereference")
  ELSE IF right.type # "INTEGER"
    THEN Done(newError("unknown operator: -" \o right.type), st)
    ELSE Done(integer(-right.value), st)

evalPrefixExpression(operator, right, st) ==
  CASE operator = "!" -> Done(evalBangOperator(right), st)
    [] operator = "-" -> evalMinusOperator(right, st)
    [] OTHER -> IF right = nil THEN Panic(st, "nil dereference")
                ELSE Done(newError("unkown operator: " \o operator \o right.type), st)

evalIntegerInfixExpression(left, operator, right, st) ==
  CASE operator = "+"  -> Done(integer(left.value + right.value), st)
    [] operator = "-"  -> Done(integer(left.value - right.value), st)
    [] operator = "*"  -> Done(integer(left.value * right.value), st)
    [] operator = "/"  -> IF right.value = 0
                            THEN Panic(st, "integer divide by zero")
                            ELSE Done(integer(Quot(left.value, right.value)), st)
    [] operator = ">"  -> Done(boolean(left.value > right.value), st)
    [] operator = "<"  -> Done(boolean(left.value < right.value), st)
    [] operator = "==" -> Done(boolean(left.value = right.value), st)
    [] operator = "!=" -> Done(boolean(left.value # right.value), st)
    [] OTHER -> Done(newError("unknown operator: " \o left.type \o " "
                              \o operator \o " " \o right.type), st)

evalStringInfixExpression(left, operator, right, st) ==
  IF operator = "+"
    THEN Done([type |-> "STRING", value |-> left.value \o right.value,
               id |-> st.nobj + 1],
              [st EXCEPT !.nobj = @ + 1])
    ELSE Done(newError("unknown operator: " \o left.type \o " "
                       \o operator \o " " \o right.type), st)

\* the switch with the identity cases ahead of the type check
InfixResultIdentityFirst(left, operator, right, st) ==
  IF left.type = "INTEGER" /\ right.type = "INTEGER"
    THEN evalIntegerInfixExpression(left, operator, right, st)
  ELSE IF operator = "==" THEN Done(boolean(left = right), st)
  ELSE IF operator = "!=" THEN Done(boolean(left # right), st)
  ELSE IF left.type # right.type
    THEN Done(newError("type mismatch: " \o left.type \o " " \o operator
                       \o " " \o right.type), st)
  ELSE IF left.type = "STRING" /\ right.type = "STRING"
    THEN evalStringInfixExpression(left, operator, right, st)
  ELSE Done(newError("unknown operator: " \o left.type \o " " \o operator
                     \o " " \o right.type), st)

\* the switch of evalInfixExpression; left == right on two interface
\* values of one dynamic pointer type is pointer identity
InfixResult(left, operator, right, st) ==
  IF left.type # right.type
    THEN Done(newError("type mismatch: " \o left.type \o " " \o operator
                       \o " " \o right.type), st)
  ELSE IF left.type = "INTEGER" /\ right.type = "INTEGER"
    THEN evalIntegerInfixExpression(left, operator, right, st)
  ELSE IF operator = "==" THEN Done(boolean(left = right), st)
  ELSE IF operator = "!=" THEN Done(boolean(left # right), st)
  ELSE IF left.type = "STRING" /\ right.type = "STRING"
    THEN evalStringInfixExpression(left, operator, right, st)
  ELSE Done(newError("unknown operator: " \o left.type \o " " \o operator
                     \o " " \o right.type), st)

evalInfixExpression(left, operator, right, st) ==
  IF left = nil \/ right = nil THEN Panic(st, "nil dereference")
  ELSE LET r == InfixResult(left, operator, right, st)
       IN  IF Faulted(r) THEN r
           ELSE Done(r.val, Log(r.st, [ev |-> "infix", left |-> left,
                                        operator |-> operator, right |-> right,
                                        val |-> r.val]))

\* the bounds check one position short
evalArrayIndexExpressionShort(array, index) ==
  LET idx == index.value
      max == Len(array.elements) - 1
  IN  IF idx < 0 \/ idx >= max THEN NULL ELSE array.elements[idx + 1]

evalArrayIndexExpression(array, index) ==
  LET idx == index.value
      max == Len(array.elements) - 1
  IN  IF idx < 0 \/ idx > max THEN NULL ELSE array.elements[idx + 1]

IndexResult(left, index) ==
  IF left.type = "ARRAY" /\ index.type = "INTEGER"
    THEN evalArrayIndexExpression(left, index)
    ELSE newError("index operator not supported: " \o left.type)

evalIndexExpression(left, index, st) ==
  IF left = nil \/ (left.type = "ARRAY" /\ index = nil)
    THEN Panic(st, "nil dereference")
    ELSE LET val == IndexResult(left, index)
         IN  Done(val, Log(st, [ev |-> "index", left |-> left,
                                index |-> index, val |-> val]))

evalIdentifier(env, node, st) ==
  LET found == Get(st.envs, env, node.Value)
  IN  IF found.ok THEN Done(found.val, st)
      ELSE IF node.Value \in DOMAIN builtins THEN Done(builtins[node.Value], st)
      ELSE Done(newError("identifier not found: " \o node.Value), st)

(***************************************************************************)
(* Eval: the dispatch on the node's kind, and the recursive helpers.       *)
(***************************************************************************)
RECURSIVE Eval(_, _, _)
RECURSIVE evalBlockStatementFrom(_, _, _, _, _)
RECURSIVE evalExpressionsFrom(_, _, _, _, _)
RECURSIVE evalHashLiteralFrom(_, _, _, _, _, _)
RECURSIVE applyFunction(_, _, _)

\* case *ast.ReturnStatement
EvalReturnStatement(node, env, st) ==
  LET value == Eval(node.ReturnValue, env, st)
  IN  IF Faulted(value) \/ isError(value.val) THEN value
      ELSE Done([type |-> "RETURN_VALUE", value |-> value.val,
                 id |-> value.st.nobj + 1],
                Log([value.st EXCEPT !.nobj = @ + 1],
                    [ev |-> "return", env |-> env, val |-> value.val]))

\* case *ast.PrefixExpression
EvalPrefixExpression(node, env, st) ==
  LET right == Eval(node.Right, env, st)
  IN  IF Faulted(right) \/ isError(right.val) THEN right
      ELSE evalPrefixExpression(node.Operator, right.val, right.st)

\* case *ast.InfixExpression
EvalInfixExpression(node, env, st) ==
  LET left == Eval(node.Left, env, st)
  IN  IF Faulted(left) \/ isError(left.val) THEN left
      ELSE LET right == Eval(node.Right, env, left.st)
           IN  IF Faulted(right) \/ isError(right.val) THEN right
               ELSE evalInfixExpression(left.val, node.Operator, right.val,
                                        right.st)

\* the let statement without the isError check
EvalLetStatementUnchecked(node, env, st) ==
  LET val == Eval(node.Value, env, st)
  IN  IF Faulted(val) THEN val
      ELSE Done(nil, [val.st EXCEPT !.envs = Set(@, env, node.Name.Value, val.val)])

\* case *ast.LetStatement: falls out of the switch to `return nil`
EvalLetStatement(node, env, st) ==
  LET val == Eval(node.Value, env, st)
  IN  IF Faulted(val) \/ isError(val.val) THEN val
      ELSE Done(nil, [val.st EXCEPT !.envs = Set(@, env, node.Name.Value, val.val)])

\* case *ast.FunctionLiteral
EvalFunctionLiteral(node, env, st) ==
  Done([type |-> "FUNCTION", parameters |-> node.Parameters,
        body |-> node.Body, env |-> env, id |-> st.nobj + 1],
       [st EXCEPT !.nobj = @ + 1])

evalExpressionsFrom(exps, i, res, env, st) ==
  IF i > Len(exps) THEN [vals |-> res, st |-> st]
  ELSE LET evaluated == Eval(exps[i], env, st)
       IN  IF Faulted(evaluated) THEN [vals |-> res, st |-> evaluated.st]
           ELSE IF isError(evaluated.val)
             THEN [vals |-> <<evaluated.val>>, st |-> evaluated.st]
             ELSE evalExpressionsFrom(exps, i + 1, Append(res, evaluated.val),
                                      env, evaluated.st)

evalExpressions(exps, env, st) == evalExpressionsFrom(exps, 1, <<>>, env, st)

\* binds parameter i and the following ones; args[paramIdx] is a checked
\* slice access
RECURSIVE bindParameters(_, _, _, _, _)
bindParameters(parameters, i, args, env, st) ==
  IF i > Len(parameters) THEN [env |-> env, st |-> st]
  ELSE IF i > Len(args)
    THEN [env |-> env, st |-> [st EXCEPT !.fault = "index out of range"]]
    ELSE bindParameters(parameters, i + 1, args, env,
                        [st EXCEPT !.envs = Set(@, env, parameters[i].Value, args[i])])

\* the call environment not enclosed by the function's environment
extendedFunctionEnvNotEnclosed(function, args, st) ==
  LET env == Len(st.envs) + 1
      st1 == [st EXCEPT !.envs = Append(@, NewEnvironment)]
  IN  bindParameters(function.parameters, 1, args, env, st1)

extendedFunctionEnv(function, args, st) ==
  LET env == Len(st.envs) + 1
      st1 == [st EXCEPT !.envs = Append(@, NewEnclosedEnvironment(function.env))]
  IN  bindParameters(function.parameters, 1, args, env, st1)

applyFunction(fn, args, st) ==
  IF fn = nil THEN Panic(st, "nil dereference")
  ELSE IF fn.type = "FUNCTION" THEN
    LET st0 == Log(st, [ev |-> "call", fn |-> fn, args |-> args,
                        env |-> Len(st.envs) + 1])
        extendedEnv == extendedFunctionEnv(fn, args, st0)
    IN  IF Faulted(extendedEnv) THEN Done(nil, extendedEnv.st)
        ELSE LET evaluated == Eval(fn.body, extendedEnv.env, extendedEnv.st)
             IN  IF Faulted(evaluated) THEN evaluated
                 ELSE Done(unwrapReturnValue(evaluated.val),
                           Log(evaluated.st,
                               [ev |-> "exit", env |-> extendedEnv.env,
                                val |-> unwrapReturnValue(evaluated.val)]))
  ELSE IF fn.type = "BUILTIN" THEN
    Done(BuiltinFn(fn, args),
         Log(st, [ev |-> "call", fn |-> fn, args |-> args, env |-> 0]))
  ELSE Done(newError("not a function: " \o fn.type), st)

\* case *ast.CallExpression
EvalCallExpression(node, env, st) ==
  LET function == Eval(node.Function, env, st)
  IN  IF Faulted(function) \/ isError(function.val) THEN function
      ELSE LET args == evalExpressions(node.Arguments, env, function.st)
           IN  IF Faulted(args) THEN Done(nil, args.st)
               ELSE IF Len(args.vals) = 1 /\ isError(args.vals[1])
                 THEN Done(args.vals[1], args.st)
                 ELSE applyFunction(function.val, args.vals, args.st)

\* case *ast.ArrayLiteral
EvalArrayLiteral(node, env, st) ==
  LET elements == evalExpressions(node.Elements, env, st)
  IN  IF Faulted(elements) THEN Done(nil, elements.st)
      ELSE IF Len(elements.vals) = 1 /\ isError(elements.vals[1])
        THEN Done(elements.vals[1], elements.st)
        ELSE LET array == [type |-> "ARRAY", elements |-> elements.vals,
                           id |-> elements.st.nobj + 1]
             IN  Done(array, Log([elements.st EXCEPT !.nobj = @ + 1],
                                 [ev |-> "array", val |-> array]))

\* case *ast.IndexExpression
EvalIndexExpression(node, env, st) ==
  LET left == Eval(node.Left, env, st)
  IN  IF Faulted(left) \/ isError(left.val) THEN left
      ELSE LET index == Eval(node.Index, env, left.st)
           IN  IF Faulted(index) \/ isError(index.val) THEN index
               ELSE evalIndexExpression(left.val, index.val, index.st)

\* the body of the loop of evalHashLiteral, for the pairs that `order`
\* lists from position i on
evalHashLiteralFrom(node, order, i, pairs, env, st) ==
  IF i > Len(order)
    THEN LET hash == [type |-> "HASH", pairs |-> pairs, id |-> st.nobj + 1]
         IN  Done(hash, Log([st EXCEPT !.nobj = @ + 1],
                            [ev |-> "hash", val |-> hash]))
    ELSE LET keyNode   == node.Pairs[order[i]].key
             valueNode == node.Pairs[order[i]].value
             key       == Eval(keyNode, env, st)
         IN  IF Faulted(key) \/ isError(key.val) THEN key
             ELSE IF key.val = nil THEN Panic(key.st, "nil dereference")
             ELSE IF ~Hashable(key.val)
               THEN Done(newError("unusable as hash key: " \o key.val.type),
                         key.st)
             ELSE LET value == Eval(valueNode, env, key.st)
                  IN  IF Faulted(value) \/ isError(value.val) THEN value
                      ELSE evalHashLiteralFrom(node, order, i + 1,
                             (HashKey(key.val) :>
                                [Key |-> key.val, Value |-> value.val]) @@ pairs,
                             env, value.st)

\* node.Pairs is a Go map keyed by the key expressions: `range` visits the
\* pairs in an order the runtime picks anew for every loop.  The order of
\* this loop is the head of st.ord, which then moves to the back.
evalHashLiteral(node, env, st) ==
  LET order == SelectSeq(Head(st.ord), LAMBDA k : k <= Len(node.Pairs))
  IN  evalHashLiteralFrom(node, order, 1, <<>>, env,
                          [st EXCEPT !.ord = Append(Tail(@), Head(@))])

evalIfExpression(v, env, st) ==
  LET condition == Eval(v.Condition, env, st)
  IN  IF Faulted(condition) \/ isError(condition.val) THEN condition
      ELSE IF isTruthy(condition.val) THEN Eval(v.Consequence, env, condition.st)
      ELSE IF v.Alternative.kind # "nil"
        THEN Eval(v.Alternative, env, condition.st)
        ELSE Done(NULL, condition.st)

\* the loop of evalBlockStatement from statement i on; last.Type() is a
\* method call on an interface value, a fault when the value is nil
evalBlockStatementFrom(block, i, lastv, env, st) ==
  IF i > Len(block.Statements) THEN Done(lastv, st)
  ELSE LET r == Eval(block.Statements[i], env,
                     Log(st, [ev |-> "stmt", env |-> env,
                              node |-> block.Statements[i]]))
       IN  IF Faulted(r) THEN r
           ELSE IF r.val = nil THEN Panic(r.st, "nil dereference")
           ELSE IF r.val.type = "ERROR" \/ r.val.type = "RETURN_VALUE" THEN r
           ELSE evalBlockStatementFrom(block, i + 1, r.val, env, r.st)

evalBlockStatement(block, env, st) ==
  evalBlockStatementFrom(block, 1, nil, env, st)

Eval(node, env, st) ==
  CASE node.kind = "ReturnStatement"     -> EvalReturnStatement(node, env, st)
    [] node.kind = "BlockStatement"      -> evalBlockStatement(node, env, st)
    [] node.kind = "IfExpression"        -> evalIfExpression(node, env, st)
    [] node.kind = "IntegerLiteral"      -> Done(integer(node.Value), st)
    [] node.kind = "Boolean"             -> Done(boolean(node.Value), st)
    [] node.kind = "ExpressionStatement" -> Eval(node.Expression, env, st)
    [] node.kind = "PrefixExpression"    -> EvalPrefixExpression(node, env, st)
    [] node.kind = "InfixExpression"     -> EvalInfixExpression(node, env, st)
    [] node.kind = "LetStatement"        -> EvalLetStatement(node, env, st)
    [] node.kind = "Identifier"          -> evalIdentifier(env, node, st)
    [] node.kind = "StringLiteral"       ->
         Done([type |-> "STRING", value |-> node.Value, id |-> st.nobj + 1],
              [st EXCEPT !.nobj = @ + 1])
    [] node.kind = "FunctionLiteral"     -> EvalFunctionLiteral(node, env, st)
    [] node.kind = "CallExpression"      -> EvalCallExpression(node, env, st)
    [] node.kind = "ArrayLiteral"        -> EvalArrayLiteral(node, env, st)
    [] node.kind = "IndexExpression"     -> EvalIndexExpression(node, env, st)
    [] node.kind = "HashLiteral"         -> evalHashLiteral(node, env, st)
    [] OTHER                             -> Done(nil, st)

(***************************************************************************)
(* The statements programs are made of.                                    *)
(***************************************************************************)
NullExpr == If(BoolLit(FALSE), Block(<<>>), NoNode)        \* if (false) {}
IfRet    == If(BoolLit(TRUE), Block(<<Ret(IntLit(1))>>), NoNode)  \* if (true) { return 1 }
IdFn     == Fn(<<"x">>, Block(<<ExprS(Ident("x"))>>))   \* fn(x) { x }

\* let newAdder = fn(x) { fn(y) { x + y } };
AdderBody == Block(<<ExprS(Infix(Ident("x"), "+", Ident("y")))>>)
LetMaker  == Let("newAdder", Fn(<<"x">>, Block(<<ExprS(Fn(<<"y">>, AdderBody))>>)))

AdderNames == {"addTwo", "addThree"}
AdderArg(f) == IF f = "addTwo" THEN 2 ELSE 3
\* let addTwo = newAdder(2);  let addThree = newAdder(3);
LetAdder(f) == Let(f, Call(Ident("newAdder"), <<IntLit(AdderArg(f))>>))
CallAdder(f, c) == ExprS(Call(Ident(f), <<IntLit(c)>>))

\* statements that may be followed by further statements
PrefixStmts ==
  {LetMaker, Let("s", StrLit("a")), Let("e", Ident("foobar"))}
    \cup {LetAdder(f) : f \in AdderNames}

SignalExprs == {IfRet, Ident("foobar"), IntLit(1)}

StoreStmts ==
  UNION {{ExprS(Arr(<<e>>)),
          ExprS(Arr(<<IntLit(1), e>>)),
          ExprS(HashLit(<<[key |-> IntLit(1), value |-> e]>>)),
          ExprS(Call(IdFn, <<e>>)),
          ExprS(Call(Ident("len"), <<e>>))} : e \in SignalExprs}

ReturnStmts == {Ret(e) : e \in SignalExprs}

LetBlock(e) == Block(<<Let("y", e), ExprS(Ident("y"))>>)
LetBlockStmts ==
  {ExprS(Call(Fn(<<"x">>, LetBlock(Ident("x"))), <<IntLit(5)>>)),
   ExprS(If(BoolLit(TRUE), LetBlock(IntLit(5)), NoNode)),
   ExprS(If(BoolLit(FALSE), Block(<<ExprS(IntLit(1))>>), LetBlock(IntLit(5))))}

ArgsOf(k) == [i \in 1..k |-> IntLit(i)]
ArityStmts ==
  {ExprS(Call(Fn(ps, Block(<<ExprS(b)>>)), ArgsOf(k))) :
     ps \in {<<"x">>, <<"x", "y">>}, b \in {Ident("x"), Ident("y"), IntLit(0)},
     k \in 0..MaxArgs}

\* a hash literal with the given key expressions; pair i has the value i
KeyExprs == {StrLit("a"), IntLit(1)}
HashOf(keys) == HashLit([i \in DOMAIN keys |-> [key |-> keys[i], value |-> IntLit(i)]])
HashStmts ==
  {ExprS(HashOf(keys)) : keys \in UNION {[1..k -> KeyExprs] : k \in 1..MaxPairs}}

Atoms == {IntLit(1), BoolLit(TRUE), StrLit("a"), Arr(<<>>), HashLit(<<>>), NullExpr,
          Ident("s")}
EqStmts == {ExprS(Infix(l, op, r)) : l \in Atoms, r \in Atoms, op \in {"==", "!="}}

\* a return under d nested if-blocks, each block with a statement after it
RECURSIVE NestRet(_)
NestRet(d) ==
  IF d = 0 THEN Ret(IntLit(1))
  ELSE ExprS(If(BoolLit(TRUE), Block(<<NestRet(d - 1), ExprS(IntLit(9))>>), NoNode))

CallNest(d) == Call(Fn(<<>>, Block(<<NestRet(d), ExprS(IntLit(9))>>)), <<>>)
Thunk(stmts) == Call(Fn(<<>>, Block(stmts)), <<>>)

UnwindStmts ==
  UNION {{ExprS(CallNest(d)),
          ExprS(If(BoolLit(TRUE), Block(<<ExprS(CallNest(d)), ExprS(IntLit(7))>>), NoNode)),
          ExprS(Thunk(<<ExprS(CallNest(d)), ExprS(IntLit(7))>>))} : d \in 0..MaxNest}
    \cup {ExprS(Thunk(<<ExprS(Arr(<<IfRet>>)), ExprS(IntLit(2))>>)),
          ExprS(Thunk(<<ExprS(Infix(IfRet, "+", IntLit(2))), ExprS(IntLit(2))>>)),
          ExprS(Thunk(<<Ret(IfRet)>>)),
          ExprS(Thunk(<<>>))}

ArrOf(len) == Arr([i \in 1..len |-> IntLit(10 * i)])
IndexExprs == {IntLit(i) : i \in 0..MaxLen + 1} \cup {Prefix("-", IntLit(1))}
IndexStmts ==
  {ExprS(Index(ArrOf(len), i)) : len \in 0..MaxLen, i \in IndexExprs}
    \cup {ExprS(Index(HashLit(<<[key |-> StrLit("one"), value |-> IntLit(1)]>>), StrLit("one"))),
          ExprS(Index(StrLit("a"), IntLit(0))),
          ExprS(Index(IntLit(1), IntLit(0))),
          ExprS(Index(NullExpr, IntLit(0))),
          ExprS(Index(ArrOf(1), StrLit("a"))),
          ExprS(Index(ArrOf(1), BoolLit(TRUE))),
          ExprS(Index(ArrOf(1), Thunk(<<>>))),
          ExprS(Index(Thunk(<<>>), IntLit(0)))}

OtherStmts ==
  {ExprS(IntLit(1)), ExprS(Ident("foobar")), ExprS(Ident("s")),
   ExprS(Infix(StrLit("foo"), "+", StrLit("bar"))),
   ExprS(Infix(StrLit("foo"), "-", StrLit("bar"))),
   ExprS(Infix(IntLit(7), "/", Prefix("-", IntLit(2)))),
   ExprS(Infix(IntLit(1), "/", IntLit(0))),
   ExprS(Infix(BoolLit(TRUE), "+", BoolLit(TRUE))),
   ExprS(Prefix("!", IntLit(0))), ExprS(Prefix("-", BoolLit(TRUE))),
   ExprS(Call(IntLit(1), <<>>)),
   ExprS(Call(Call(Ident("newAdder"), <<IntLit(2)>>), <<IntLit(3)>>))}
    \cup {CallAdder(f, c) : f \in AdderNames, c \in {1, 3}}

Stmts ==
  PrefixStmts \cup StoreStmts \cup ReturnStmts \cup LetBlockStmts
    \cup ArityStmts \cup HashStmts \cup EqStmts \cup UnwindStmts
    \cup IndexStmts \cup OtherStmts

\* the orders `range` may pick for the map iterations of one statement:
\* one permutation per iteration.  Only the statements of HashStmts iterate
\* over a map of more than one pair, so only they see the choice.
Perms == {p \in [1..MaxPairs -> 1..MaxPairs] : \A i, j \in 1..MaxPairs : p[i] = p[j] => i = j}
IdPerm == [i \in 1..MaxPairs |-> i]
Orders(s) == IF s \in HashStmts THEN [1..OracleLen -> Perms]
             ELSE {[i \in 1..OracleLen |-> IdPerm]}

(***************************************************************************)
(* evalProgram: Eval(program, env) on the root environment.  The loop over *)
(* program.Statements is the state machine; the statements are drawn as    *)
(* the loop reaches them.  A program is at most MaxStmts statements, all   *)
(* but its last one from PrefixStmts.                                      *)
(***************************************************************************)
Init ==
  /\ envs = <<NewEnvironment>>
  /\ nobj = 0
  /\ last = nil
  /\ pc = "loop"
  /\ fault = "none"
  /\ result = nil
  /\ n = 0
  /\ stmt = NoNode
  /\ trace = <<>>

\* one iteration: last = Eval(stmt, env) and the type switch on last
EvalStatement(s, ord) ==
  /\ pc = "loop"
  /\ n < MaxStmts
  /\ stmt \in PrefixStmts \cup {NoNode}
  /\ LET r == Eval(s, RootEnv, [envs |-> envs, nobj |-> nobj, trace |-> <<>>,
                                fault |-> "none", ord |-> ord])
     IN  /\ envs' = r.st.envs
         /\ nobj' = r.st.nobj
         /\ trace' = r.st.trace
         /\ fault' = r.st.fault
         /\ stmt' = s
         /\ n' = n + 1
         /\ IF Faulted(r)
              THEN pc' = "panic" /\ UNCHANGED <<last, result>>
            ELSE IF r.val.type = "RETURN_VALUE"
              THEN pc' = "done" /\ last' = r.val /\ result' = r.val.value
            ELSE IF r.val.type = "ERROR"
              THEN pc' = "done" /\ last' = r.val /\ result' = r.val
            ELSE pc' = "loop" /\ last' = r.val /\ UNCHANGED result

\* the loop is over: return last
EndOfProgram ==
  /\ pc = "loop"
  /\ pc' = "done"
  /\ result' = last
  /\ UNCHANGED <<envs, nobj, last, fault, n, stmt, trace>>

Next ==
  \/ \E s \in Stmts : \E ord \in Orders(s) : EvalStatement(s, ord)
  \/ EndOfProgram

Spec == Init /\ [][Next]_vars

(***************************************************************************)
(* Properties.                                                             *)
(***************************************************************************)
IsSignal(v) == v.type \in {"RETURN_VALUE", "ERROR"}

Events(kind) == {i \in DOMAIN trace : trace[i].ev = kind}

Min(a, b) == IF a < b THEN a ELSE b

\* C1: no ReturnSignal and no ErrorSignal is stored as an element of an
\* array, as a value of a hash pair, or passed as an argument of a call.
C1_NoSignalStored ==
  /\ \A i \in Events("array") :
       \A k \in DOMAIN trace[i].val.elements : ~IsSignal(trace[i].val.elements[k])
  /\ \A i \in Events("hash") :
       \A k \in DOMAIN trace[i].val.pairs : ~IsSignal(trace[i].val.pairs[k].Value)
  /\ \A i \in Events("call") :
       \A k \in DOMAIN trace[i].args : ~IsSignal(trace[i].args[k])

\* C2: the result of Eval on a Program is never a ReturnSignal.
C2_ProgramResultNotReturn == pc = "done" => result.type # "RETURN_VALUE"

\* C3: a block that contains a let statement is evaluated without a
\* host-level fault, and its result is the result of its last statement
\* (5 in each of the programs of LetBlockStmts).
C3_LetInBlockCompletes ==
  /\ (\E i \in Events("stmt") : trace[i].node.kind = "LetStatement")
       => pc # "panic"
  /\ stmt \in LetBlockStmts => last = integer(5)

\* C4: a call of a function value never faults at the call itself, whatever
\* the number of arguments: the parameters that have an argument are bound
\* positionally in the fresh call environment, the others are left unbound,
\* and extra arguments are ignored.
C4_ArityNotValidated ==
  \A i \in Events("call") :
    trace[i].fn.type = "FUNCTION" =>
      LET ps  == trace[i].fn.parameters
          as  == trace[i].args
          env == trace[i].env
          m   == Min(Len(ps), Len(as))
      IN  /\ fault # "index out of range"
          /\ DOMAIN envs[env].store = {ps[k].Value : k \in 1..m}
          /\ \A k \in 1..m : Get(envs, env, ps[k].Value).val = as[k]

\* the HashKey of the value of a literal key expression
LiteralKey(node) ==
  [type  |-> IF node.kind = "StringLiteral" THEN "STRING" ELSE "INTEGER",
   value |-> node.Value]

\* C5: a hash literal holds one pair per distinct key, whose value is the
\* value of the last pair of the literal, in source order, with that key.
C5_LastWriteWins ==
  (stmt \in HashStmts /\ pc # "panic") =>
    LET ps == stmt.Expression.Pairs
        lastWrite(i) == CHOOSE j \in DOMAIN ps :
                          /\ ps[j].key = ps[i].key
                          /\ \A k \in DOMAIN ps : ps[k].key = ps[i].key => k <= j
    IN  /\ last.type = "HASH"
        /\ DOMAIN last.pairs = {LiteralKey(ps[i].key) : i \in DOMAIN ps}
        /\ \A i \in DOMAIN ps :
             last.pairs[LiteralKey(ps[i].key)].Value = integer(lastWrite(i))

BothInteger(e) == e.left.type = "INTEGER" /\ e.right.type = "INTEGER"

\* the singleton that == or != yields when the operands are compared by
\* identity
ByIdentity(e) == boolean((e.left = e.right) = (e.operator = "=="))

EqualityEvents ==
  {i \in Events("infix") : trace[i].operator \in {"==", "!="} /\ ~BothInteger(trace[i])}

\* C6 as stated: == and != on operands that are not both Integer yield the
\* singleton of the comparison by identity.
C6_IdentityForAllOperands ==
  \A i \in EqualityEvents : trace[i].val = ByIdentity(trace[i])

\* C6 as amended: == and != on operands of one type that is not Integer
\* yield the singleton of the comparison by identity, so that two separately
\* allocated objects are never ==; on operands of two different types they
\* yield the error `type mismatch`.
C6_IdentityWithinOneType ==
  \A i \in EqualityEvents :
    LET e == trace[i]
    IN  IF e.left.type = e.right.type
          THEN /\ e.val = ByIdentity(e)
               /\ (e.left.type \in {"STRING", "ARRAY", "HASH"}
                     /\ e.left.id # e.right.id)
                    => e.val = boolean(e.operator = "!=")
          ELSE e.val = newError("type mismatch: " \o e.left.type \o " "
                                \o e.operator \o " " \o e.right.type)

C6_Witness ==
  \E i \in EqualityEvents :
    /\ trace[i].left.type = "STRING" /\ trace[i].right.type = "STRING"
    /\ trace[i].left.value = trace[i].right.value
    /\ trace[i].operator = "=="
    /\ trace[i].val = ObjFALSE

\* C7: a closure captures the environment of the call that created it by
\* reference.  An environment of a call is never changed by a later
\* statement; the closure that newAdder(a) returns holds a fresh environment
\* that binds x to a and encloses newAdder's own; a call of that closure
\* runs in a fresh environment enclosed by the captured one and yields
\* a + c, whatever other calls of newAdder were made.
C7_Step ==
  n' = n + 1 =>
    /\ \A e \in 2..Len(envs) : envs'[e] = envs[e]
    /\ \A f \in AdderNames :
         (stmt' = LetAdder(f) /\ "newAdder" \in DOMAIN envs[RootEnv].store) =>
           /\ pc' = "loop"
           /\ LET closure == envs'[RootEnv].store[f]
              IN  /\ closure.type = "FUNCTION"
                  /\ closure.env > Len(envs)
                  /\ envs'[closure.env].store = ("x" :> integer(AdderArg(f)))
                  /\ envs'[closure.env].outer = envs[RootEnv].store["newAdder"].env
    /\ \A f \in AdderNames, c \in {1, 3} :
         (stmt' = CallAdder(f, c) /\ f \in DOMAIN envs[RootEnv].store) =>
           /\ pc' = "loop"
           /\ last' = integer(AdderArg(f) + c)
           /\ \E i \in DOMAIN trace' :
                /\ trace'[i].ev = "call"
                /\ trace'[i].fn = envs[RootEnv].store[f]
                /\ trace'[i].env > Len(envs)
                /\ envs'[trace'[i].env].outer = envs[RootEnv].store[f].env

C7_ClosureCapturesByReference == [][C7_Step]_vars

C7_Witness ==
  /\ stmt = CallAdder("addTwo", 3)
  /\ last = integer(5)
  /\ "addThree" \in DOMAIN envs[RootEnv].store

\* C8: a statement that evaluates to an ErrorSignal ends the program with
\* that signal as the result and binds nothing; no statement is evaluated
\* once the program has ended; every other statement leaves the root
\* environment as it was, but for a let statement, which adds the binding
\* of its name to a value that is not an ErrorSignal.
C8_Step ==
  /\ pc = "loop"
  /\ n' = n + 1 =>
       /\ (pc' # "panic" /\ isError(last')) =>
            /\ pc' = "done"
            /\ result' = last'
            /\ envs'[RootEnv] = envs[RootEnv]
       /\ pc' = "loop" =>
            IF stmt'.kind = "LetStatement"
              THEN LET name == stmt'.Name.Value
                   IN  /\ DOMAIN envs'[RootEnv].store
                            = DOMAIN envs[RootEnv].store \cup {name}
                       /\ ~isError(envs'[RootEnv].store[name])
                       /\ \A x \in DOMAIN envs[RootEnv].store \ {name} :
                            envs'[RootEnv].store[x] = envs[RootEnv].store[x]
              ELSE envs'[RootEnv] = envs[RootEnv]

C8_ErrorStopsProgram == [][C8_Step]_vars

C8_Witness ==
  /\ pc = "done"
  /\ stmt = Let("e", Ident("foobar"))
  /\ result = newError("identifier not found: foobar")
  /\ DOMAIN envs[RootEnv].store = {"s"}

\* C9: a return statement executed in the body of a function call unwinds
\* to that call: no statement of the body's blocks is evaluated after it,
\* and the call yields the operand's value, which is not a ReturnSignal.
C9_ReturnUnwindsToCall ==
  \A i \in Events("return") :
    trace[i].env # RootEnv =>
      /\ \A j \in Events("stmt") : j > i => trace[j].env # trace[i].env
      /\ \A j \in Events("exit") :
           trace[j].env = trace[i].env =>
             trace[j].val = trace[i].val /\ trace[j].val.type # "RETURN_VALUE"

\* C10: indexing an array of length n with an integer i yields the element
\* at position i when 0 <= i <= n-1 and Null otherwise, never an error;
\* any other pair of container and index yields the error
\* `index operator not supported` with the container's type.
C10_IndexExpression ==
  \A i \in Events("index") :
    LET left  == trace[i].left
        index == trace[i].index
        val   == trace[i].val
    IN  IF left.type = "ARRAY" /\ index.type = "INTEGER"
          THEN LET len == Len(left.elements)
               IN  /\ (0 <= index.value /\ index.value <= len - 1)
                        => val = left.elements[index.value + 1]
                   /\ (index.value < 0 \/ index.value >= len) => val = NULL
                   /\ val.type # "ERROR"
          ELSE val = newError("index operator not supported: " \o left.type)

C10_Witness ==
  \E i \in Events("index") :
    /\ trace[i].left.type = "ARRAY"
    /\ trace[i].index.type = "INTEGER"
    /\ Len(trace[i].left.elements) > 0
    /\ trace[i].index.value = Len(trace[i].left.elements)
    /\ trace[i].val = NULL

====
